---- MODULE Spec2Model ----
(***************************************************************************)
(* State-machine model of InventoryExpiryTracker.py: the module's          *)
(* top-level execution (two assignments of the threshold globals, the      *)
(* __main__ section between them), check_inventory_expiry with             *)
(* validate_item, and the cashflow functions calculate_confidence,         *)
(* generate_recommendations and predict_cashflow_risk.                     *)
(*                                                                         *)
(* Conventions.  A Python value is a tagged record [t, v]: "absent" (the   *)
(* key is not in the dict), "none" (None), "str" (a string that is neither *)
(* a number nor an ISO date; v tells strings apart), "num" (a number) and  *)
(* "iso" (an ISO date string; v is the instant in seconds).  Prices are    *)
(* held in thousandths of a currency unit, values rounded to 2 decimals in *)
(* hundredths.                                                             *)
(***************************************************************************)
EXTENDS Integers, Sequences, FiniteSets, TLC

VARIABLES
    run_mode,            \* "script": python InventoryExpiryTracker.py; "import": imported
    pc,                  \* position of the interpreter
    callee,              \* the function that is running or has just returned
    CRITICAL_THRESHOLD,  \* module global, assigned at line 15 and again at line 286
    WARNING_THRESHOLD,   \* module global, assigned at line 16 and again at line 287
    inventory_data,      \* argument of check_inventory_expiry
    inventory_list,      \* local of check_inventory_expiry
    current_date,        \* local of check_inventory_expiry (seconds)
    index,               \* loop counter of enumerate(inventory_list), 0-based
    critical_items,
    warning_items,
    ok_items,
    expired_items,
    skipped_items,
    response,            \* value returned by the running call
    raised,              \* exception that left the running call, or "none"
    transactions,        \* argument of predict_cashflow_risk / df of calculate_confidence
    current_balance,     \* argument of predict_cashflow_risk
    risk_level_arg       \* argument of generate_recommendations

vars == <<run_mode, pc, callee, CRITICAL_THRESHOLD, WARNING_THRESHOLD, inventory_data,
          inventory_list, current_date, index, critical_items, warning_items,
          ok_items, expired_items, skipped_items, response, raised,
          transactions, current_balance, risk_level_arg>>

inv_vars == <<inventory_data, inventory_list, current_date, index, critical_items,
              warning_items, ok_items, expired_items, skipped_items>>

cash_vars == <<transactions, current_balance, risk_level_arg>>

(***************************************************************************)
(* Bounds of the model.                                                    *)
(***************************************************************************)
MaxItems == 2        \* longest inventory list
MaxRuns == 2         \* longest transaction list (in runs of equal transactions)

(***************************************************************************)
(* Python values.                                                          *)
(***************************************************************************)
Absent == [t |-> "absent", v |-> 0]
None == [t |-> "none", v |-> 0]
Str(n) == [t |-> "str", v |-> n]
Num(n) == [t |-> "num", v |-> n]

SecondsPerDay == 86400

\* an ISO date(-time) string: day number and seconds into the day
Iso(day, sec) == [t |-> "iso", v |-> day * SecondsPerDay + sec]

\* datetime.now(): the invocation time, 10:00 on day 0
Now == 36000

NoResponse == [status |-> "none"]

\* float(x): numbers convert, a non-numeric string is a ValueError, None a TypeError
Float(x) ==
    CASE x.t = "num" -> [exc |-> "none", v |-> x.v]
      [] x.t = "none" -> [exc |-> "TypeError", v |-> 0]
      [] OTHER -> [exc |-> "ValueError", v |-> 0]

\* datetime.fromisoformat(s): the instant, or ValueError (TypeError when s is no string)
FromIsoFormat(x) ==
    CASE x.t = "iso" -> [exc |-> "none", v |-> x.v]
      [] x.t = "str" -> [exc |-> "ValueError", v |-> 0]
      [] OTHER -> [exc |-> "TypeError", v |-> 0]

\* str(x): a string stays one, anything else prints as text that is no ISO date
PyStr(x) == IF x.t \in {"iso", "str"} THEN x ELSE Str(0)

\* timedelta.days of an interval of s seconds: the floor, also for s < 0
TimedeltaDays(s) == s \div SecondsPerDay

\* round(a / b) to the nearest integer, ties to even (b > 0)
RoundHalfEven(a, b) ==
    LET q == a \div b
        r == a - q * b
    IN  IF 2 * r < b THEN q
        ELSE IF 2 * r > b THEN q + 1
        ELSE IF q % 2 = 0 THEN q ELSE q + 1

\* round(x, 2) of an amount x given in thousandths: the result in hundredths
Round2(mills) == RoundHalfEven(mills, 10)

(***************************************************************************)
(* validate_item (lines 21-41).                                            *)
(***************************************************************************)
REQUIRED_FIELDS == <<"item_id", "item_name", "quantity", "unit", "expiry_date">>

Has(item, field) == item[field].t # "absent"

Missing(item) == {i \in 1..Len(REQUIRED_FIELDS) : ~Has(item, REQUIRED_FIELDS[i])}

FirstMissing(item) == CHOOSE i \in Missing(item) : \A j \in Missing(item) : i <= j

\* mutant: the try blocks catch ValueError alone
ValidateCaughtValueErrorOnly == {"ValueError"}

\* the exceptions the two try blocks of validate_item catch
ValidateCaught == {"TypeError", "ValueError"}

ValidateQuantity(item) ==
    LET qty == Float(item["quantity"])
    IN  IF qty.exc # "none"
        THEN IF qty.exc \in ValidateCaught
             THEN [exc |-> "none", ok |-> FALSE, msg |-> <<"quantity is not a valid number">>]
             ELSE [exc |-> qty.exc, ok |-> FALSE, msg |-> <<>>]
        ELSE IF qty.v < 0
             THEN [exc |-> "none", ok |-> FALSE, msg |-> <<"quantity must be >= 0">>]
             ELSE [exc |-> "none", ok |-> TRUE, msg |-> <<>>]

ValidatePrice(item) ==
    IF Has(item, "purchase_price") /\ item["purchase_price"].t # "none"
    THEN LET price == Float(item["purchase_price"])
         IN  IF price.exc # "none"
             THEN IF price.exc \in ValidateCaught
                  THEN [exc |-> "none", ok |-> FALSE,
                        msg |-> <<"purchase_price is not a valid number">>]
                  ELSE [exc |-> price.exc, ok |-> FALSE, msg |-> <<>>]
             ELSE IF price.v < 0
                  THEN [exc |-> "none", ok |-> FALSE,
                        msg |-> <<"purchase_price must be >= 0">>]
                  ELSE [exc |-> "none", ok |-> TRUE, msg |-> <<>>]
    ELSE [exc |-> "none", ok |-> TRUE, msg |-> <<>>]

validate_item(item, idx) ==
    IF Missing(item) # {}
    THEN [exc |-> "none", ok |-> FALSE,
          msg |-> <<"is missing required field", REQUIRED_FIELDS[FirstMissing(item)]>>]
    ELSE LET q == ValidateQuantity(item)
         IN  IF q.exc # "none" \/ ~q.ok THEN q ELSE ValidatePrice(item)

(***************************************************************************)
(* check_inventory_expiry (lines 44-183).                                  *)
(***************************************************************************)
\* item.get(key, default)
Get(item, key, default) == IF Has(item, key) THEN item[key] ELSE default

\* x or 0, then float: None, a missing key and 0 all count as 0
FloatOrZero(x) == IF x.t = "num" THEN x.v ELSE 0

\* lines 118-120: round(price * quantity, 2), in hundredths
ValueAtRisk(item) ==
    Round2(FloatOrZero(Get(item, "purchase_price", None))
           * FloatOrZero(Get(item, "quantity", None)))

\* lines 132-154: the if / elif chain, on the thresholds the globals hold now
Tier(days, critical, warning) ==
    IF days <= 0 THEN "expired"
    ELSE IF days < critical THEN "critical"
    ELSE IF days < warning THEN "warning"
    ELSE "ok"

Recommendation(tier) ==
    CASE tier = "expired" -> "Item has EXPIRED. Remove from stock immediately and do not sell."
      [] tier = "critical" -> "Offer 20-30% discount to clear stock immediately."
      [] tier = "warning" -> "Feature prominently in store."
      [] OTHER -> "Monitor regularly - stock is within safe range."

\* lines 116-130
Enriched(item, now, critical, warning) ==
    LET days == TimedeltaDays(FromIsoFormat(PyStr(item["expiry_date"])).v - now)
    IN  [item_id |-> item["item_id"],
         item_name |-> item["item_name"],
         quantity |-> item["quantity"],
         unit |-> item["unit"],
         days_until_expiry |-> days,
         expiry_date |-> item["expiry_date"],
         value_at_risk |-> ValueAtRisk(item),
         recommendation |-> Recommendation(Tier(days, critical, warning))]

\* lines 88-92, 97-101, 107-111
SkipInvalid(item, idx, msg) ==
    [item_id |-> Get(item, "item_id", [t |-> "unknown_index", v |-> idx]),
     item_name |-> Get(item, "item_name", [t |-> "unknown", v |-> 0]),
     reason |-> msg]

SkipDated(item, msg) ==
    [item_id |-> item["item_id"], item_name |-> item["item_name"], reason |-> msg]

\* the exceptions the try around fromisoformat catches (line 106)
ExpiryCaught == {"ValueError", "TypeError"}

\* the exceptions the try around the current_date parse catches (line 53)
CurrentDateCaught == {"ValueError", "TypeError"}

\* mutant: the emptiness check is left out
NeverEmpty(l) == FALSE

\* line 70: not inventory_list
IsEmptyList(l) == l = <<>>

RECURSIVE SumValue(_)
SumValue(items) ==
    IF items = <<>> THEN 0 ELSE Head(items).value_at_risk + SumValue(Tail(items))

\* mutant: the warning bucket is left out of the sum
TotalValueAtRiskCriticalOnly(critical, warning) == SumValue(critical)

\* lines 156-159 (hundredths: the outer round(…, 2) changes nothing)
TotalValueAtRisk(critical, warning) == SumValue(critical \o warning)

\* lines 161-163
TotalExpiredValue(expired) == SumValue(expired)

\* mutant: the warning count is taken from the ok list
SummaryMiscounted(critical, warning, ok, expired, skipped) ==
    [critical_items |-> Len(critical),
     warning_items |-> Len(ok),
     ok_items |-> Len(ok),
     expired_items |-> Len(expired),
     skipped_items |-> Len(skipped),
     total_value_at_risk |-> SumValue(critical \o warning),
     total_expired_value |-> SumValue(expired)]

\* lines 167-175
Summary(critical, warning, ok, expired, skipped) ==
    [critical_items |-> Len(critical),
     warning_items |-> Len(warning),
     ok_items |-> Len(ok),
     expired_items |-> Len(expired),
     skipped_items |-> Len(skipped),
     total_value_at_risk |-> TotalValueAtRisk(critical, warning),
     total_expired_value |-> TotalExpiredValue(expired)]

ErrorResponse(message, stamp) ==
    [status |-> "error", message |-> message, timestamp |-> stamp]

(***************************************************************************)
(* Inputs of check_inventory_expiry.                                       *)
(***************************************************************************)
MkItem(id, name, qty, unit, expiry, price) ==
    [item_id |-> id, item_name |-> name, quantity |-> qty, unit |-> unit,
     expiry_date |-> expiry, purchase_price |-> price]

ExpiryDays == {-1, 0, 1, 6, 7, 13, 14}

PriceQuantity == {<<Num(1006), Num(3)>>, <<Num(4), Num(1)>>, <<Absent, Num(3)>>}

DatedItems ==
    {MkItem(Str(1), Str(2), pq[2], Str(3), Iso(d, 0), pq[1]) :
        d \in ExpiryDays, pq \in PriceQuantity}

OddItems ==
    { MkItem(Str(1), Str(2), Num(3), Str(3), None, Num(1006)),
      MkItem(Str(1), Str(2), Num(3), Str(3), Str(0), Num(1006)),
      MkItem(Str(1), Str(2), Num(3), Str(3), Absent, Num(1006)),
      MkItem(Absent, Str(2), Num(3), Str(3), Iso(6, 0), Num(1006)),
      MkItem(Str(1), Str(2), Str(0), Str(3), Iso(6, 0), Num(1006)),
      MkItem(Str(1), Str(2), None, Str(3), Iso(6, 0), Num(1006)),
      MkItem(Str(1), Str(2), Num(-1), Str(3), Iso(6, 0), Num(1006)),
      MkItem(Str(1), Str(2), Num(3), Str(3), Iso(6, 0), Str(0)),
      MkItem(Str(1), Str(2), Num(3), Str(3), Iso(6, 0), Num(-1)),
      MkItem(Str(1), Str(2), Num(3), Str(3), Iso(6, 0), None),
      MkItem(Str(1), Str(2), Num(0), Str(3), Iso(6, 0), Num(1006)) }

Items == DatedItems \cup OddItems

\* current_date of the dict: missing, a date, a date with a time of day, no ISO text
CurrentDates == {Absent, Iso(0, 0), Iso(0, 36000), Str(0)}

\* json values: a list, a dict with or without "inventory", anything else
ListInput(l) ==
    [shape |-> "list", inventory |-> l, has_inventory |-> TRUE, current_date |-> Absent]

DictInput(l, c) ==
    [shape |-> "dict", inventory |-> l, has_inventory |-> TRUE, current_date |-> c]

DictWithoutInventory(c) ==
    [shape |-> "dict", inventory |-> <<>>, has_inventory |-> FALSE, current_date |-> c]

\* an argument that is neither a list nor a dict
NoInput ==
    [shape |-> "other", inventory |-> <<>>, has_inventory |-> FALSE, current_date |-> Absent]

(***************************************************************************)
(* Module execution.                                                       *)
(***************************************************************************)
Init ==
    /\ run_mode \in {"script", "import"}
    /\ pc = "line15"
    /\ callee = "none"
    /\ CRITICAL_THRESHOLD = 0
    /\ WARNING_THRESHOLD = 0
    /\ inventory_data = NoInput
    /\ inventory_list = <<>>
    /\ current_date = 0
    /\ index = 0
    /\ critical_items = <<>>
    /\ warning_items = <<>>
    /\ ok_items = <<>>
    /\ expired_items = <<>>
    /\ skipped_items = <<>>
    /\ response = NoResponse
    /\ raised = "none"
    /\ transactions = <<>>
    /\ current_balance = None
    /\ risk_level_arg = ""

InitImport == Init /\ run_mode = "import"

\* lines 15-16
LoadInventoryConstants ==
    /\ pc = "line15"
    /\ CRITICAL_THRESHOLD' = 7
    /\ WARNING_THRESHOLD' = 14
    /\ pc' = "line189"
    /\ UNCHANGED <<run_mode, callee, inv_vars, response, raised, cash_vars>>

\* line 189: if __name__ == '__main__'
SkipMainSection ==
    /\ pc = "line189"
    /\ run_mode = "import"
    /\ pc' = "line286"
    /\ UNCHANGED <<run_mode, callee, CRITICAL_THRESHOLD, WARNING_THRESHOLD, inv_vars,
                   response, raised, cash_vars>>

\* the call of line 198 (script) or a call by the importing program
CallCheckInventoryExpiry ==
    /\ \/ pc = "line189" /\ run_mode = "script"
       \/ pc = "idle"
    /\ \/ \E n \in 0..MaxItems : \E l \in [1..n -> Items] :
             inventory_data' = ListInput(l)
       \/ \E n \in 0..MaxItems : \E l \in [1..n -> Items] : \E c \in CurrentDates :
             inventory_data' = DictInput(l, c)
       \/ \E c \in CurrentDates : inventory_data' = DictWithoutInventory(c)
       \/ inventory_data' = NoInput
    /\ pc' = "cie_entry"
    /\ callee' = "check_inventory_expiry"
    /\ inventory_list' = <<>>
    /\ current_date' = 0
    /\ index' = 0
    /\ critical_items' = <<>>
    /\ warning_items' = <<>>
    /\ ok_items' = <<>>
    /\ expired_items' = <<>>
    /\ skipped_items' = <<>>
    /\ response' = NoResponse
    /\ raised' = "none"
    /\ UNCHANGED <<run_mode, CRITICAL_THRESHOLD, WARNING_THRESHOLD, cash_vars>>

\* lines 45-82
CheckInventoryEntry ==
    /\ pc = "cie_entry"
    /\ LET d == inventory_data
           list == IF d.shape = "list" \/ d.has_inventory THEN d.inventory ELSE <<>>
           parsed == FromIsoFormat(d.current_date)
           use_now == d.shape = "list" \/ ~Has(d, "current_date")
           date == IF use_now THEN Now ELSE parsed.v
       IN  IF d.shape \notin {"list", "dict"}
           THEN /\ response' = ErrorResponse("inventory_data must be a list or a dict", Now)
                /\ pc' = "returned"
                /\ UNCHANGED <<inventory_list, current_date, raised>>
           ELSE IF ~use_now /\ parsed.exc # "none"
           THEN IF parsed.exc \in CurrentDateCaught
                THEN /\ response' = ErrorResponse("Invalid current_date format", Now)
                     /\ pc' = "returned"
                     /\ UNCHANGED <<inventory_list, current_date, raised>>
                ELSE /\ raised' = parsed.exc
                     /\ pc' = "returned"
                     /\ UNCHANGED <<inventory_list, current_date, response>>
           ELSE IF IsEmptyList(list)
           THEN /\ response' = ErrorResponse("Inventory list is empty", date)
                /\ inventory_list' = list
                /\ current_date' = date
                /\ pc' = "returned"
                /\ UNCHANGED raised
           ELSE /\ inventory_list' = list
                /\ current_date' = date
                /\ pc' = "cie_loop"
                /\ UNCHANGED <<response, raised>>
    /\ UNCHANGED <<run_mode, callee, CRITICAL_THRESHOLD, WARNING_THRESHOLD, inventory_data, index,
                   critical_items, warning_items, ok_items, expired_items, skipped_items,
                   cash_vars>>

\* lines 85-154: one iteration of the loop
CheckInventoryLoop ==
    /\ pc = "cie_loop"
    /\ index < Len(inventory_list)
    /\ LET item == inventory_list[index + 1]
           valid == validate_item(item, index)
           raw == Get(item, "expiry_date", None)
           parsed == FromIsoFormat(PyStr(raw))
           e == Enriched(item, current_date, CRITICAL_THRESHOLD, WARNING_THRESHOLD)
           tier == Tier(e.days_until_expiry, CRITICAL_THRESHOLD, WARNING_THRESHOLD)
       IN  IF valid.exc # "none"
           THEN /\ raised' = valid.exc
                /\ pc' = "returned"
                /\ UNCHANGED <<index, critical_items, warning_items, ok_items,
                               expired_items, skipped_items>>
           ELSE IF ~valid.ok
           THEN /\ skipped_items' = Append(skipped_items, SkipInvalid(item, index, valid.msg))
                /\ index' = index + 1
                /\ UNCHANGED <<pc, raised, critical_items, warning_items, ok_items,
                               expired_items>>
           ELSE IF raw.t = "none"
           THEN /\ skipped_items' =
                       Append(skipped_items, SkipDated(item, <<"No expiry date provided">>))
                /\ index' = index + 1
                /\ UNCHANGED <<pc, raised, critical_items, warning_items, ok_items,
                               expired_items>>
           ELSE IF parsed.exc # "none"
           THEN IF parsed.exc \in ExpiryCaught
                THEN /\ skipped_items' =
                            Append(skipped_items,
                                   SkipDated(item, <<"Invalid expiry_date format">>))
                     /\ index' = index + 1
                     /\ UNCHANGED <<pc, raised, critical_items, warning_items, ok_items,
                                    expired_items>>
                ELSE /\ raised' = parsed.exc
                     /\ pc' = "returned"
                     /\ UNCHANGED <<index, critical_items, warning_items, ok_items,
                                    expired_items, skipped_items>>
           ELSE /\ expired_items' =
                       IF tier = "expired" THEN Append(expired_items, e) ELSE expired_items
                /\ critical_items' =
                       IF tier = "critical" THEN Append(critical_items, e) ELSE critical_items
                /\ warning_items' =
                       IF tier = "warning" THEN Append(warning_items, e) ELSE warning_items
                /\ ok_items' = IF tier = "ok" THEN Append(ok_items, e) ELSE ok_items
                /\ index' = index + 1
                /\ UNCHANGED <<pc, raised, skipped_items>>
    /\ UNCHANGED <<run_mode, callee, CRITICAL_THRESHOLD, WARNING_THRESHOLD, inventory_data,
                   inventory_list, current_date, response, cash_vars>>

\* lines 156-183
CheckInventoryReturn ==
    /\ pc = "cie_loop"
    /\ index = Len(inventory_list)
    /\ response' =
           [status |-> "success",
            summary |-> Summary(critical_items, warning_items, ok_items, expired_items,
                                skipped_items),
            critical_items |-> critical_items,
            warning_items |-> warning_items,
            expired_items |-> expired_items,
            ok_items |-> ok_items,
            skipped_items |-> skipped_items,
            timestamp |-> current_date]
    /\ pc' = "returned"
    /\ UNCHANGED <<run_mode, callee, CRITICAL_THRESHOLD, WARNING_THRESHOLD, inv_vars, raised,
                   cash_vars>>

\* the caller takes the result (lines 200-261 of the script, or the importing
\* program) and the frame of the call is gone
CallerResumes ==
    /\ pc = "returned"
    /\ pc' = IF run_mode = "script" THEN "line286" ELSE "idle"
    /\ inventory_data' = NoInput
    /\ inventory_list' = <<>>
    /\ current_date' = 0
    /\ index' = 0
    /\ critical_items' = <<>>
    /\ warning_items' = <<>>
    /\ ok_items' = <<>>
    /\ expired_items' = <<>>
    /\ skipped_items' = <<>>
    /\ response' = NoResponse
    /\ raised' = "none"
    /\ transactions' = <<>>
    /\ current_balance' = None
    /\ risk_level_arg' = ""
    /\ callee' = "none"
    /\ UNCHANGED <<run_mode, CRITICAL_THRESHOLD, WARNING_THRESHOLD>>

\* lines 286-294
LoadCashflowConstants ==
    /\ pc = "line286"
    /\ CRITICAL_THRESHOLD' = 30
    /\ WARNING_THRESHOLD' = 60
    /\ pc' = IF run_mode = "script" THEN "exit" ELSE "idle"
    /\ UNCHANGED <<run_mode, callee, inv_vars, response, raised, cash_vars>>

(***************************************************************************)
(* Properties of check_inventory_expiry.                                   *)
(***************************************************************************)
TierNames == {"expired", "critical", "warning", "ok"}

Bucket(name) ==
    CASE name = "expired" -> expired_items
      [] name = "critical" -> critical_items
      [] name = "warning" -> warning_items
      [] name = "ok" -> ok_items
      [] OTHER -> skipped_items

InCall ==
    /\ callee = "check_inventory_expiry"
    /\ pc \in {"cie_loop", "returned"}
    /\ inventory_list # <<>>

Returned == callee = "check_inventory_expiry" /\ pc = "returned"

Succeeded == Returned /\ response.status = "success"

\* calendar day of an instant
DayOf(s) == s \div SecondsPerDay

\* the tier the specification gives a record that expires in d days
SpecTier(d) ==
    IF d <= 0 THEN "expired"
    ELSE IF d < 7 THEN "critical"
    ELSE IF d < 14 THEN "warning"
    ELSE "ok"

\* C1: every classified record sits in the bucket of its days_until_expiry: d <= 0
\* expired, 0 < d < 7 critical, 7 <= d < 14 warning, d >= 14 ok, whatever values the
\* threshold globals hold when the function runs.
C1_TierByDays ==
    InCall =>
        \A name \in TierNames : \A i \in 1..Len(Bucket(name)) :
            SpecTier(Bucket(name)[i].days_until_expiry) = name

\* C2: after k records the five buckets hold k entries in all, at the end as many as
\* there are input records, and each count of the summary is the length of its list.
C2_BucketsPartition ==
    /\ InCall =>
          Len(expired_items) + Len(critical_items) + Len(warning_items)
            + Len(ok_items) + Len(skipped_items) = index
    /\ Succeeded =>
          /\ Len(response.expired_items) + Len(response.critical_items)
               + Len(response.warning_items) + Len(response.ok_items)
               + Len(response.skipped_items) = Len(inventory_data.inventory)
          /\ response.summary.critical_items = Len(response.critical_items)
          /\ response.summary.warning_items = Len(response.warning_items)
          /\ response.summary.ok_items = Len(response.ok_items)
          /\ response.summary.expired_items = Len(response.expired_items)
          /\ response.summary.skipped_items = Len(response.skipped_items)

C2_Witness ==
    /\ Succeeded
    /\ Len(inventory_data.inventory) = 2
    /\ Len(response.skipped_items) = 1
    /\ Len(response.warning_items) = 1

\* what the claims call a record-level failure
RecordFails(item) ==
    \/ \E f \in {"item_id", "item_name", "quantity", "unit", "expiry_date"} :
          item[f].t = "absent"
    \/ item["quantity"].t # "num"
    \/ item["quantity"].v < 0
    \/ /\ item["purchase_price"].t \notin {"absent", "none"}
       /\ \/ item["purchase_price"].t # "num"
          \/ item["purchase_price"].v < 0
    \/ item["expiry_date"].t # "iso"

\* the bucket a record belongs to, given the reference date and the thresholds in force
PlaceOf(item) ==
    IF RecordFails(item) THEN "skipped"
    ELSE Tier(TimedeltaDays(item["expiry_date"].v - current_date),
              CRITICAL_THRESHOLD, WARNING_THRESHOLD)

\* purchase_price * quantity in thousandths, a missing or null price counting as 0
RawValue(item) ==
    (IF item["purchase_price"].t = "num" THEN item["purchase_price"].v ELSE 0)
      * item["quantity"].v

RECURSIVE SumRawIn(_, _)
SumRawIn(items, places) ==
    IF items = <<>> THEN 0
    ELSE (IF PlaceOf(Head(items)) \in places THEN RawValue(Head(items)) ELSE 0)
           + SumRawIn(Tail(items), places)

RECURSIVE SumRoundedIn(_, _)
SumRoundedIn(items, places) ==
    IF items = <<>> THEN 0
    ELSE (IF PlaceOf(Head(items)) \in places THEN Round2(RawValue(Head(items))) ELSE 0)
           + SumRoundedIn(Tail(items), places)

\* C3 as stated: the totals are the sums of purchase_price * quantity itself over the
\* critical and warning records, and over the expired records.
C3_TotalsOfRawValues ==
    Succeeded =>
        /\ 10 * response.summary.total_value_at_risk
             = SumRawIn(inventory_list, {"critical", "warning"})
        /\ 10 * response.summary.total_expired_value
             = SumRawIn(inventory_list, {"expired"})

\* C3 (amended): the totals are the sums of value_at_risk, which is purchase_price *
\* quantity rounded to 2 decimals (a missing or null price counting as 0), over exactly
\* the critical and warning records, and over exactly the expired records.
C3_TotalsOfRoundedValues ==
    Succeeded =>
        /\ response.summary.total_value_at_risk
             = SumRoundedIn(inventory_list, {"critical", "warning"})
        /\ response.summary.total_expired_value
             = SumRoundedIn(inventory_list, {"expired"})
        /\ response.summary.total_value_at_risk
             = SumValue(response.critical_items) + SumValue(response.warning_items)
        /\ response.summary.total_expired_value = SumValue(response.expired_items)

C3_Witness ==
    /\ Succeeded
    /\ response.summary.total_value_at_risk > 0
    /\ response.summary.total_expired_value > 0

RECURSIVE ExpectedSkips(_, _)
ExpectedSkips(items, from) ==
    IF items = <<>> THEN <<>>
    ELSE (IF RecordFails(Head(items))
          THEN << <<IF Head(items)["item_id"].t = "absent"
                    THEN [t |-> "unknown_index", v |-> from]
                    ELSE Head(items)["item_id"],
                    IF Head(items)["item_name"].t = "absent"
                    THEN [t |-> "unknown", v |-> 0]
                    ELSE Head(items)["item_name"]>> >>
          ELSE <<>>)
         \o ExpectedSkips(Tail(items), from + 1)

SkippedIds == [i \in 1..Len(skipped_items) |->
                  <<skipped_items[i].item_id, skipped_items[i].item_name>>]

\* C4: no record-level failure raises or fails the batch: the failing records of the
\* batch, and only they, are in skipped_items, each with a reason, all other records
\* are in the tier buckets, every record is processed and the status is 'success'.
C4_RecordFailureNotFatal ==
    /\ callee = "check_inventory_expiry" => raised = "none"
    /\ InCall =>
          /\ SkippedIds = ExpectedSkips(SubSeq(inventory_list, 1, index), 0)
          /\ \A i \in 1..Len(skipped_items) : skipped_items[i].reason # <<>>
          /\ Len(expired_items) + Len(critical_items) + Len(warning_items) + Len(ok_items)
               = index - Len(ExpectedSkips(SubSeq(inventory_list, 1, index), 0))
    /\ (Returned /\ inventory_list # <<>>) =>
          /\ response.status = "success"
          /\ index = Len(inventory_list)
          /\ response.skipped_items = skipped_items

C4_Witness ==
    /\ Succeeded
    /\ Len(inventory_list) = 2
    /\ Len(response.skipped_items) = 2
    /\ response.skipped_items[1].item_id.t = "unknown_index"

\* what the claims call a batch-level failure
BatchFails(d) ==
    \/ d.shape \notin {"list", "dict"}
    \/ d.shape = "dict" /\ d.current_date.t \notin {"absent", "iso"}
    \/ d.shape = "list" /\ d.inventory = <<>>
    \/ d.shape = "dict" /\ (~d.has_inventory \/ d.inventory = <<>>)

\* C5: a batch-level failure (wrong shape, no records, unparseable current_date) is a
\* returned result with status 'error' and a message, without buckets or summary, and
\* never a raised fault; no other input gives status 'error'.
C5_BatchFailureIsErrorResult ==
    Returned =>
        /\ raised = "none"
        /\ response.status = "error" <=> BatchFails(inventory_data)
        /\ response.status = "error" =>
              DOMAIN response = {"status", "message", "timestamp"}
        /\ response.status \in {"error", "success"}

C5_Witness ==
    /\ Returned
    /\ response.status = "error"
    /\ inventory_data.shape = "dict"
    /\ inventory_data.current_date.t = "str"
    /\ Len(inventory_data.inventory) = 2

\* C7: days_until_expiry is the difference in days between the expiry date and the
\* reference date, whether the reference is a date, carries a time of day, or is the
\* invocation time.
C7_ExactDayDifference ==
    InCall =>
        \A name \in TierNames : \A i \in 1..Len(Bucket(name)) :
            Bucket(name)[i].days_until_expiry
              = DayOf(Bucket(name)[i].expiry_date.v) - DayOf(current_date)


NextInventory ==
    \/ LoadInventoryConstants
    \/ SkipMainSection
    \/ CallCheckInventoryExpiry
    \/ CheckInventoryEntry
    \/ CheckInventoryLoop
    \/ CheckInventoryReturn
    \/ CallerResumes
    \/ LoadCashflowConstants

SpecInventory == Init /\ [][NextInventory]_vars

(***************************************************************************)
(* The cashflow functions (lines 286-470).  A transaction list or          *)
(* DataFrame is held run-length encoded: each element stands for n equal   *)
(* transactions [date, type, amount].  Amounts and the balance are whole   *)
(* currency units; an average is the exact fraction [num, den]; a value    *)
(* rounded to 2 decimals is held in hundredths.                            *)
(***************************************************************************)
MIN_DAYS_FOR_FULL_CONFIDENCE == 90
MID_DAYS_FOR_MEDIUM_CONFIDENCE == 60
MIN_DAYS_FOR_LOW_CONFIDENCE == 30
MIN_TRANSACTIONS_PER_DAY == 5

NoKey == "<absent>"

RECURSIVE FrameLen(_)
\* len(df)
FrameLen(df) == IF df = <<>> THEN 0 ELSE Head(df).n + FrameLen(Tail(df))

Dates(df) == {df[i].date.v : i \in 1..Len(df)}

MaxOf(S) == CHOOSE x \in S : \A y \in S : y <= x

MinOf(S) == CHOOSE x \in S : \A y \in S : x <= y

\* round(days_score * density_score, 2) of two scores given in hundredths.  The one
\* product with a third decimal is 0.85 * 0.70: the double it gives lies below 0.595
\* and rounds to 0.59.
RoundScore(days_score, density_score) ==
    LET product == days_score * density_score
    IN  IF product % 100 = 50 THEN product \div 100 ELSE RoundHalfEven(product, 100)

\* mutant: the span leaves out the + 1
DaysOfDataExclusive(df) == TimedeltaDays(MaxOf(Dates(df)) - MinOf(Dates(df)))

\* line 316
DaysOfData(df) == TimedeltaDays(MaxOf(Dates(df)) - MinOf(Dates(df))) + 1

\* lines 319-326, in hundredths
DaysScore(days_of_data) ==
    IF days_of_data >= MIN_DAYS_FOR_FULL_CONFIDENCE THEN 100
    ELSE IF days_of_data >= MID_DAYS_FOR_MEDIUM_CONFIDENCE THEN 85
    ELSE IF days_of_data >= MIN_DAYS_FOR_LOW_CONFIDENCE THEN 70
    ELSE 50

\* lines 329-330, in hundredths: len(df) / days_of_data >= MIN_TRANSACTIONS_PER_DAY
DensityScore(count, days_of_data) ==
    IF count >= MIN_TRANSACTIONS_PER_DAY * days_of_data THEN 100 ELSE 70

\* lines 301-332: pd.to_datetime raises on a date it cannot parse
calculate_confidence(df) ==
    IF \E i \in 1..Len(df) : df[i].date.t # "iso"
    THEN [exc |-> "ValueError", v |-> 0]
    ELSE [exc |-> "none",
          v |-> RoundScore(DaysScore(DaysOfData(df)),
                           DensityScore(FrameLen(df), DaysOfData(df)))]

Rec(priority, action) == [priority |-> priority, action |-> action]

\* mutant: an unknown risk level gets an empty list
GenerateNoFallback(risk_level) ==
    CASE risk_level = "critical" ->
           << Rec(1, "Reduce non-essential expenses immediately"),
              Rec(2, "Follow up on all pending payments"),
              Rec(3, "Consider short-term financing options") >>
      [] risk_level = "warning" ->
           << Rec(1, "Review and cut discretionary spending"),
              Rec(2, "Speed up collection of receivables"),
              Rec(3, "Identify and plan new revenue sources") >>
      [] risk_level = "ok" ->
           << Rec(1, "Monitor cashflow on a weekly basis"),
              Rec(2, "Build an emergency cash reserve") >>
      [] risk_level = "stable" ->
           << Rec(1, "Maintain current financial discipline"),
              Rec(2, "Consider reinvesting surplus into inventory") >>
      [] OTHER -> << >>

\* lines 339-374
generate_recommendations(risk_level) ==
    CASE risk_level = "critical" ->
           << Rec(1, "Reduce non-essential expenses immediately"),
              Rec(2, "Follow up on all pending payments"),
              Rec(3, "Consider short-term financing options") >>
      [] risk_level = "warning" ->
           << Rec(1, "Review and cut discretionary spending"),
              Rec(2, "Speed up collection of receivables"),
              Rec(3, "Identify and plan new revenue sources") >>
      [] risk_level = "ok" ->
           << Rec(1, "Monitor cashflow on a weekly basis"),
              Rec(2, "Build an emergency cash reserve") >>
      [] risk_level = "stable" ->
           << Rec(1, "Maintain current financial discipline"),
              Rec(2, "Consider reinvesting surplus into inventory") >>
      [] OTHER -> << Rec(1, "Review your transaction data for accuracy") >>

\* lines 417-421: the transactions that lack one of date, type, amount
MissingFields(df) ==
    {i \in 1..Len(df) : df[i].date.t = "absent" \/ df[i].type = NoKey
                          \/ df[i].amount.t = "absent"}

\* mutant: the type check is left out
NoInvalidTypes(df) == {}

\* lines 426-427: the rows whose type is not in valid_types
InvalidTypes(df) == {i \in 1..Len(df) : df[i].type \notin {"income", "expense"}}

RECURSIVE SumAmount(_, _)
SumAmount(df, type) ==
    IF df = <<>> THEN 0
    ELSE (IF Head(df).type = type THEN Head(df).amount.v * Head(df).n ELSE 0)
           + SumAmount(Tail(df), type)

RECURSIVE CountType(_, _)
CountType(df, type) ==
    IF df = <<>> THEN 0
    ELSE (IF Head(df).type = type THEN Head(df).n ELSE 0) + CountType(Tail(df), type)

\* lines 437-441: the mean amount of a partition, 0.0 for an empty one
Mean(df, type) ==
    IF CountType(df, type) = 0 THEN [num |-> 0, den |-> 1]
    ELSE [num |-> SumAmount(df, type), den |-> CountType(df, type)]

\* line 443
BurnRate(avg_expense, avg_income) ==
    [num |-> avg_expense.num * avg_income.den - avg_income.num * avg_expense.den,
     den |-> avg_expense.den * avg_income.den]

\* int(x) of the quotient a / b (b > 0): the fraction is cut off, towards zero
IntOfQuotient(a, b) == IF a >= 0 THEN a \div b ELSE -((-a) \div b)

\* line 451: int(current_balance / burn_rate)
DaysUntilBroke(balance, burn_rate) == IntOfQuotient(balance * burn_rate.den, burn_rate.num)

\* mutant: the thresholds are compared with < instead of <=
RiskLevelStrict(days_until_broke, critical, warning) ==
    IF days_until_broke < critical THEN "critical"
    ELSE IF days_until_broke < warning THEN "warning"
    ELSE "ok"

\* lines 453-458
RiskLevel(days_until_broke, critical, warning) ==
    IF days_until_broke <= critical THEN "critical"
    ELSE IF days_until_broke <= warning THEN "warning"
    ELSE "ok"

\* round(x, 2) of a fraction, in hundredths
RoundFraction(x) == RoundHalfEven(100 * x.num, x.den)

\* lines 435-470, once the input has passed validation
Prediction(df, balance, critical, warning) ==
    LET avg_income == Mean(df, "income")
        avg_expense == Mean(df, "expense")
        burn_rate == BurnRate(avg_expense, avg_income)
        stable == burn_rate.num <= 0
        days == IF stable THEN None ELSE Num(DaysUntilBroke(balance.v, burn_rate))
        risk_level == IF stable THEN "stable" ELSE RiskLevel(days.v, critical, warning)
    IN  [risk_level |-> risk_level,
         days_until_broke |-> days,
         avg_daily_income |-> RoundFraction(avg_income),
         avg_daily_expense |-> RoundFraction(avg_expense),
         burn_rate |-> RoundFraction(burn_rate),
         confidence_score |-> calculate_confidence(df).v,
         recommendations |-> generate_recommendations(risk_level),
         created_at |-> Now]

(***************************************************************************)
(* Inputs of the cashflow functions.                                       *)
(***************************************************************************)
Tx(date, type, amount, n) == [date |-> date, type |-> type, amount |-> amount, n |-> n]

RiskRuns ==
    {Tx(d, ty, Num(a), 1) :
        d \in {Iso(0, 0), Iso(9, 0), Str(0)},
        ty \in {"income", "expense", "refund"},
        a \in {1, 2, 3}}
    \cup {Tx(Absent, "income", Num(1), 1), Tx(Iso(0, 0), NoKey, Num(1), 1),
          Tx(Iso(0, 0), "expense", Absent, 1)}

Balances == {Num(-5), Num(0), Num(30), Num(31), Num(60), Num(61), Num(122), Str(0)}

ConfidenceRuns ==
    {Tx(Iso(d, 0), "income", Num(1), n) : d \in {0, 9, 28, 29, 59, 89}, n \in {1, 5, 225}}
    \cup {Tx(Str(0), "income", Num(1), 1)}

RiskLevels == {"critical", "warning", "ok", "stable", "expired", "unknown", ""}

(***************************************************************************)
(* Calls of the cashflow functions by an importing program.                *)
(***************************************************************************)
frame_vars == <<run_mode, CRITICAL_THRESHOLD, WARNING_THRESHOLD, inv_vars>>

CallCalculateConfidence ==
    /\ pc = "idle"
    /\ \E n \in 1..MaxRuns : \E df \in [1..n -> ConfidenceRuns] : transactions' = df
    /\ pc' = "cc_entry"
    /\ callee' = "calculate_confidence"
    /\ UNCHANGED <<frame_vars, response, raised, current_balance, risk_level_arg>>

\* lines 313-332
CalculateConfidence ==
    /\ pc = "cc_entry"
    /\ LET r == calculate_confidence(transactions)
       IN  IF r.exc # "none"
           THEN raised' = r.exc /\ UNCHANGED response
           ELSE response' = [status |-> "value", value |-> r.v] /\ UNCHANGED raised
    /\ pc' = "returned"
    /\ UNCHANGED <<frame_vars, callee, cash_vars>>

CallGenerateRecommendations ==
    /\ pc = "idle"
    /\ \E level \in RiskLevels : risk_level_arg' = level
    /\ pc' = "gr_entry"
    /\ callee' = "generate_recommendations"
    /\ UNCHANGED <<frame_vars, response, raised, transactions, current_balance>>

\* lines 350-374
GenerateRecommendations ==
    /\ pc = "gr_entry"
    /\ response' = [status |-> "value", value |-> generate_recommendations(risk_level_arg)]
    /\ pc' = "returned"
    /\ UNCHANGED <<frame_vars, callee, raised, cash_vars>>

CallPredictCashflowRisk ==
    /\ pc = "idle"
    /\ \E n \in 0..MaxRuns : \E txs \in [1..n -> RiskRuns] : transactions' = txs
    /\ \E balance \in Balances : current_balance' = balance
    /\ pc' = "pcr_validate"
    /\ callee' = "predict_cashflow_risk"
    /\ UNCHANGED <<frame_vars, response, raised, risk_level_arg>>

\* lines 410-421
PredictValidate ==
    /\ pc = "pcr_validate"
    /\ IF transactions = <<>>
       THEN raised' = "ValueError" /\ pc' = "returned"
       ELSE IF current_balance.t # "num"
       THEN raised' = "TypeError" /\ pc' = "returned"
       ELSE IF MissingFields(transactions) # {}
       THEN raised' = "ValueError" /\ pc' = "returned"
       ELSE pc' = "pcr_types" /\ UNCHANGED raised
    /\ UNCHANGED <<frame_vars, callee, response, cash_vars>>

\* lines 424-432
PredictCheckTypes ==
    /\ pc = "pcr_types"
    /\ IF InvalidTypes(transactions) # {}
       THEN raised' = "ValueError" /\ pc' = "returned"
       ELSE pc' = "pcr_core" /\ UNCHANGED raised
    /\ UNCHANGED <<frame_vars, callee, response, cash_vars>>

\* lines 435-470
PredictCore ==
    /\ pc = "pcr_core"
    /\ LET confidence == calculate_confidence(transactions)
       IN  IF confidence.exc # "none"
           THEN raised' = confidence.exc /\ UNCHANGED response
           ELSE /\ response' = Prediction(transactions, current_balance,
                                          CRITICAL_THRESHOLD, WARNING_THRESHOLD)
                /\ UNCHANGED raised
    /\ pc' = "returned"
    /\ UNCHANGED <<frame_vars, callee, cash_vars>>

(***************************************************************************)
(* Properties of the cashflow functions.                                   *)
(***************************************************************************)
PredictReturned == callee = "predict_cashflow_risk" /\ pc = "returned"

PredictResult == PredictReturned /\ raised = "none"

\* avg_expense - avg_income as one fraction, an empty partition averaging 0
ClaimBurn ==
    LET se == SumAmount(transactions, "expense")
        ce == CountType(transactions, "expense")
        si == SumAmount(transactions, "income")
        ci == CountType(transactions, "income")
    IN  CASE ce = 0 /\ ci = 0 -> [num |-> 0, den |-> 1]
          [] ce = 0 /\ ci > 0 -> [num |-> -si, den |-> ci]
          [] ce > 0 /\ ci = 0 -> [num |-> se, den |-> ce]
          [] OTHER -> [num |-> se * ci - si * ce, den |-> ce * ci]

ClaimRisk(days) ==
    IF days <= 30 THEN "critical" ELSE IF days <= 60 THEN "warning" ELSE "ok"

\* C6 as stated: burn_rate <= 0 gives 'stable' and no days_until_broke; otherwise
\* days_until_broke is the floor of current_balance / burn_rate, for every balance,
\* and the risk is critical up to 30, warning up to 60, ok above.
C6_FloorOfQuotient ==
    PredictResult =>
        IF ClaimBurn.num <= 0
        THEN response.risk_level = "stable" /\ response.days_until_broke = None
        ELSE /\ response.days_until_broke
                  = Num((current_balance.v * ClaimBurn.den) \div ClaimBurn.num)
             /\ response.risk_level = ClaimRisk(response.days_until_broke.v)

\* C6 (amended): as above, but days_until_broke is current_balance / burn_rate with
\* its fraction cut off, which is the floor only for a balance >= 0 and is one more
\* than the floor for a negative balance that burn_rate does not divide.
C6_TruncatedQuotient ==
    PredictResult =>
        IF ClaimBurn.num <= 0
        THEN response.risk_level = "stable" /\ response.days_until_broke = None
        ELSE LET a == current_balance.v * ClaimBurn.den
                 b == ClaimBurn.num
                 floor == a \div b
             IN  /\ response.days_until_broke
                      = Num(IF a < 0 /\ a % b # 0 THEN floor + 1 ELSE floor)
                 /\ response.risk_level = ClaimRisk(response.days_until_broke.v)

C6_Witness ==
    /\ PredictResult
    /\ current_balance.v < 0
    /\ response.days_until_broke = Num(-2)
    /\ response.risk_level = "critical"

C6_WitnessBoundary ==
    /\ PredictResult
    /\ response.days_until_broke = Num(60)
    /\ response.risk_level = "warning"

\* the inputs the claims say predict_cashflow_risk rejects
Rejected ==
    \/ transactions = <<>>
    \/ current_balance.t # "num"
    \/ \E i \in 1..Len(transactions) : transactions[i].type \notin {"income", "expense"}

\* a non-empty list whose transactions carry date, type and amount, and a numeric balance
WellFormed ==
    /\ transactions # <<>>
    /\ current_balance.t = "num"
    /\ \A i \in 1..Len(transactions) :
          /\ transactions[i].date.t # "absent"
          /\ transactions[i].type \in {"income", "expense"}
          /\ transactions[i].amount.t = "num"

ResultKeys ==
    {"risk_level", "days_until_broke", "avg_daily_income", "avg_daily_expense",
     "burn_rate", "confidence_score", "recommendations", "created_at"}

\* C8 as stated: a rejected input raises and returns nothing; every well-formed input
\* raises nothing and returns one result with the eight fields.
C8_RaisesOnlyOnListedInputs ==
    PredictReturned =>
        /\ Rejected => raised # "none" /\ response = NoResponse
        /\ WellFormed => raised = "none" /\ DOMAIN response = ResultKeys

\* C8 (amended): a rejected input raises and returns nothing; every well-formed input
\* whose dates can all be parsed raises nothing and returns one result with the eight
\* fields; a well-formed input with a date that cannot be parsed raises as well.
C8_RaisesAlsoOnBadDate ==
    PredictReturned =>
        /\ Rejected => raised # "none" /\ response = NoResponse
        /\ (WellFormed /\ \A i \in 1..Len(transactions) : transactions[i].date.t = "iso")
              => raised = "none" /\ DOMAIN response = ResultKeys
        /\ (WellFormed /\ \E i \in 1..Len(transactions) : transactions[i].date.t # "iso")
              => raised # "none" /\ response = NoResponse

C8_Witness ==
    /\ PredictReturned
    /\ WellFormed
    /\ Len(transactions) = 2
    /\ raised = "none"
    /\ response.risk_level = "ok"

ConfidenceReturned ==
    callee = "calculate_confidence" /\ pc = "returned" /\ raised = "none"

\* (max date - min date) + 1 days
ClaimSpan ==
    (MaxOf(Dates(transactions)) - MinOf(Dates(transactions))) \div SecondsPerDay + 1

\* days_score * density_score, in ten-thousandths
ClaimProduct ==
    (IF ClaimSpan >= 90 THEN 100
     ELSE IF ClaimSpan >= 60 THEN 85
     ELSE IF ClaimSpan >= 30 THEN 70
     ELSE 50)
    * (IF FrameLen(transactions) >= 5 * ClaimSpan THEN 100 ELSE 70)

\* C9 as stated: calculate_confidence returns days_score * density_score.
C9_ProductOfScores ==
    ConfidenceReturned => 100 * response.value = ClaimProduct

\* C9 (amended): calculate_confidence returns days_score * density_score rounded to 2
\* decimals, which is the product itself except that 0.85 * 0.70 is returned as 0.59;
\* the result is within [0,1], 1.0 for 90 days with 5 transactions a day, and 0.35
\* for 10 days with 1 transaction a day.
C9_RoundedProduct ==
    ConfidenceReturned =>
        /\ response.value = IF ClaimProduct = 5950 THEN 59 ELSE ClaimProduct \div 100
        /\ ClaimProduct # 5950 => 100 * response.value = ClaimProduct
        /\ response.value >= 0 /\ response.value <= 100
        /\ (ClaimSpan = 90 /\ FrameLen(transactions) >= 5 * 90) => response.value = 100
        /\ (ClaimSpan = 10 /\ FrameLen(transactions) = 10) => response.value = 35

C9_Witness ==
    /\ ConfidenceReturned
    /\ ClaimSpan = 90
    /\ FrameLen(transactions) = 450
    /\ response.value = 100

C9_WitnessRounded ==
    /\ ConfidenceReturned
    /\ ClaimProduct = 5950
    /\ response.value = 59

FourTiers == {"critical", "warning", "ok", "stable"}

\* C10: generate_recommendations never returns an empty list: a tier's list has
\* priorities 1, 2, ... in order, any other value gives the one generic action with
\* priority 1, and a prediction carries the list of its risk_level, one of the tiers.
C10_RecommendationsNeverEmpty ==
    /\ (callee = "generate_recommendations" /\ pc = "returned") =>
          /\ raised = "none"
          /\ response.value # <<>>
          /\ \A i \in 1..Len(response.value) : response.value[i].priority = i
          /\ risk_level_arg \in {"critical", "warning"} => Len(response.value) = 3
          /\ risk_level_arg \in {"ok", "stable"} => Len(response.value) = 2
          /\ risk_level_arg \in FourTiers =>
                \A i \in 1..Len(response.value) :
                    response.value[i].action # "Review your transaction data for accuracy"
          /\ risk_level_arg \notin FourTiers =>
                response.value
                  = <<[priority |-> 1,
                       action |-> "Review your transaction data for accuracy"]>>
    /\ PredictResult =>
          /\ response.risk_level \in FourTiers
          /\ response.recommendations # <<>>
          /\ response.recommendations = generate_recommendations(response.risk_level)
          /\ Len(response.recommendations)
               = IF response.risk_level \in {"critical", "warning"} THEN 3 ELSE 2

C10_Witness ==
    /\ callee = "generate_recommendations"
    /\ pc = "returned"
    /\ risk_level_arg = "unknown"
    /\ Len(response.value) = 1


NextLoad ==
    \/ LoadInventoryConstants
    \/ SkipMainSection
    \/ LoadCashflowConstants
    \/ CallerResumes

NextCashflow ==
    \/ NextLoad
    \/ CallGenerateRecommendations
    \/ GenerateRecommendations
    \/ CallPredictCashflowRisk
    \/ PredictValidate
    \/ PredictCheckTypes
    \/ PredictCore

SpecCashflow == InitImport /\ [][NextCashflow]_vars

NextConfidence ==
    \/ NextLoad
    \/ CallCalculateConfidence
    \/ CalculateConfidence

SpecConfidence == InitImport /\ [][NextConfidence]_vars

Next ==
    \/ NextInventory
    \/ CallCalculateConfidence
    \/ CalculateConfidence
    \/ CallGenerateRecommendations
    \/ GenerateRecommendations
    \/ CallPredictCashflowRisk
    \/ PredictValidate
    \/ PredictCheckTypes
    \/ PredictCore

Spec == Init /\ [][Next]_vars

====
